---- MODULE Spec2Model ----
(***************************************************************************)
(* Motion coordinator of the X-Y table: MovementController                 *)
(* (src/src/core/movement.py) driving MesaDriver                           *)
(* (src/src/hardware/mesa_driver.py).  Callers are threads that invoke the *)
(* controller's methods; every method is cut into its steps at the points  *)
(* where it reads or writes state shared with other callers.               *)
(***************************************************************************)
EXTENDS Integers, Sequences, FiniteSets, TLC

(***************************************************************************)
(* Threads                                                                 *)
(***************************************************************************)
\* number of executor threads that run blocking controller calls at once
\* (webapi/main.py: loop.run_in_executor for /move and /move_to, the thread
\* pool of the synchronous /api/home handler)
NumWorkers == 2

Workers == 1..NumWorkers

\* the thread that owns the controller: the asyncio event loop of the web
\* API, which runs the other handlers one at a time
Main == 0

Callers == {Main} \cup Workers

\* number of /ws/jog connections open at once
NumChannels == 2

\* the /ws/jog connections; the handler of each runs on the event loop
Channels == 1..NumChannels

(***************************************************************************)
(* Values                                                                  *)
(***************************************************************************)
\* Optional[float]: <<>> is None, <<v>> is the number v
None == <<>>

Some(v) == <<v>>

\* axis names a caller passes
Axes == {"x", "y"}

\* distances and absolute positions a caller passes (inches)
Distances == {-1, 2}

\* speeds a caller passes (inches/sec); None asks for the default
SpeedArgs == {None, Some(0), Some(1), Some(3), Some(11)}

\* jog directions and jog speeds a caller passes
JogDirections == {1, -1}

JogSpeeds == {1}

\* axis names, jog directions and jog speeds a caller of the controller
\* passes, the ones its documentation excludes among them
AxisArgs == {"x", "y", "z"}

JogDirectionArgs == {1, -1, 2}

JogSpeedArgs == {1, -1, 11}

\* IO names a caller passes to set_io
IoNames == {"down", "start", "up"}

\* axis names a /ws/jog message carries
WsAxes == {"x", "y", "z"}

\* the arguments callers pass in the interleaved specification
ConcDistances == {2}

ConcSpeedArgs == {Some(1)}

ConcJogDirections == {1}

\* distances and speeds a POST /move request carries: MoveRequest admits
\* |distance| <= 10 and a speed that is absent or in (0, 10]
WebDistances == {3, -1}

WebSpeedArgs == {None}

\* positions the limit checks are compared on (inches)
PositionArgs == -2..5

\* the model follows the table while each axis is within MaxReach inches of
\* its origin
MaxReach == 4

\* fallback of config.get('hardware.<axis>_axis.motor.max_speed', 10.0)
FallbackMaxSpeed == 10

\* fallback of config.get('movement.default_speed', 1.0)
FallbackDefaultSpeed == 1

\* configuration files the program may be started with: the keys present
\* in the YAML document, each with its value
Configs ==
    { <<>>,
      [k \in {"movement.default_speed"} |-> 11],
      [k \in {"movement.default_speed", "hardware.x_axis.motor.max_speed"} |->
          IF k = "movement.default_speed" THEN 3 ELSE 2],
      [k \in {"table.x_axis.min_position", "table.x_axis.max_speed"} |->
          IF k = "table.x_axis.min_position" THEN 1000 ELSE 2] }

VARIABLES
    config,                 \* ConfigManager._config (immutable after load)
    emergency_stop_active,  \* MovementController._emergency_stop_active
    movement_in_progress,   \* MovementController._movement_in_progress
    connected,              \* MesaDriver._connected
    driver_emergency_stop,  \* MesaDriver._emergency_stop
    hw_estop,               \* LinuxCNC's estop state (status.estop)
    pc,                     \* per caller: position inside the method it runs
    op,                     \* per caller: the controller method it runs
    args,                   \* per caller: the arguments of that call, as passed
    log,                    \* per caller: driver methods invoked by that call
    result,                 \* per caller: outcome of the call
    estop_at_entry,         \* per caller: emergency_stop_active when it was called
    scenario,               \* how far the last calls returned follow the sequence
                            \* emergency_stop, blocked move_absolute,
                            \* clear_emergency_stop with the backend succeeding
    jog_active,             \* per channel: websocket_jog's local jog_active
    ws_open,                \* per channel: the connection is accepted and open
    chan,                   \* the channel whose handler the event loop is in
    is_connected,           \* webapi/main.py: the global is_connected
    snapshot,               \* what the last status read returned
    timeout_at,             \* per caller: set when asyncio.wait_for gave up on
                            \* the call it runs and the handler replied 408;
                            \* holds the number of driver commands the call
                            \* had invoked by then, and whether one was in
                            \* flight
    reply,                  \* the reply of the web API to the last request it
                            \* has answered: endpoint, status, and how the
                            \* controller method it called ended
    hw_position,            \* per axis: the position LinuxCNC reports (inches)
    jog_started             \* per channel: axes whose driver start_jog returned
                            \* True on it with no driver stop_jog returning
                            \* True on it since

ctrlVars == <<emergency_stop_active, movement_in_progress>>

drvVars == <<connected, driver_emergency_stop, hw_estop>>

callVars == <<pc, op, args, log, result, estop_at_entry>>

wsVars == <<jog_active, ws_open, jog_started>>

webVars == <<is_connected, snapshot, timeout_at, reply, hw_position>>

vars == <<config, emergency_stop_active, movement_in_progress, connected,
          driver_emergency_stop, hw_estop, pc, op, args, log, result,
          estop_at_entry, scenario, jog_active, ws_open, chan, jog_started,
          is_connected, snapshot, timeout_at, reply, hw_position>>

(***************************************************************************)
(* ConfigManager                                                           *)
(***************************************************************************)
\* ConfigManager.get(key, default)
ConfigGet(key, default) ==
    IF key \in DOMAIN config THEN config[key] ELSE default

\* the key f'hardware.{axis}_axis.motor.max_speed'
MaxSpeedKey(axis) ==
    CASE axis = "x" -> "hardware.x_axis.motor.max_speed"
      [] axis = "y" -> "hardware.y_axis.motor.max_speed"
      [] OTHER -> "hardware.?_axis.motor.max_speed"

(***************************************************************************)
(* MovementController: pure parts                                          *)
(***************************************************************************)
\* max_speed as _validate_movement looks it up
max_speed(axis) == ConfigGet(MaxSpeedKey(axis), FallbackMaxSpeed)

\* mutant of _validate_movement: the ceiling is the built-in 10.0 whatever the
\* configuration says
validate_movement_fixed_ceiling(axis, distance, speed) ==
    ~(speed > FallbackMaxSpeed)

\* _validate_movement: TRUE when it returns, FALSE when it raises ValueError
validate_movement(axis, distance, speed) == ~(speed > max_speed(axis))

\* speed = float(config.get('movement.default_speed', 1.0)) if speed is None
substitute_speed(speed) ==
    IF speed = None THEN ConfigGet("movement.default_speed", FallbackDefaultSpeed)
    ELSE speed[1]

\* fallbacks of get_axis_limits (webapi/main.py), in thousandths of an inch:
\* 0.0, 4.25 and 3.125
FallbackMinPosition == 0

FallbackMaxPositionX == 4250

FallbackMaxPositionY == 3125

\* fallback of config_manager.get('table.<axis>_axis.max_speed', 10.0)
FallbackTableMaxSpeed == 10

\* get_axis_limits(axis): the position limits of an axis, in thousandths of
\* an inch, and its max_speed in inches/sec
get_axis_limits(axis) ==
    IF axis = "x"
    THEN [min |-> ConfigGet("table.x_axis.min_position", FallbackMinPosition),
          max |-> ConfigGet("table.x_axis.max_position", FallbackMaxPositionX),
          max_speed |-> ConfigGet("table.x_axis.max_speed", FallbackTableMaxSpeed)]
    ELSE [min |-> ConfigGet("table.y_axis.min_position", FallbackMinPosition),
          max |-> ConfigGet("table.y_axis.max_position", FallbackMaxPositionY),
          max_speed |-> ConfigGet("table.y_axis.max_speed", FallbackTableMaxSpeed)]

\* validate_position(axis, position) of webapi/main.py, lines 175-181, for a
\* position in inches
validate_position(axis, position) ==
    CASE axis = "x" ->
            /\ 0 <= position * 1000
            /\ position * 1000 <=
                  ConfigGet("table.x_axis.max_position", FallbackMaxPositionX)
      [] axis = "y" ->
            /\ 0 <= position * 1000
            /\ position * 1000 <=
                  ConfigGet("table.y_axis.max_position", FallbackMaxPositionY)
      [] OTHER -> FALSE

\* a position (inches) lies in [min_position, max_position] of the axis
within_limits(axis, position) ==
    /\ get_axis_limits(axis).min <= position * 1000
    /\ position * 1000 <= get_axis_limits(axis).max

\* a driver method invocation: method, its arguments, what it returned
Cmd(m, axis, p, q) == [m |-> m, axis |-> axis, p |-> p, q |-> q, ret |-> "pending"]

\* the arguments of a method that takes none
NoArgs == [axis |-> "-", a |-> 0, b |-> 0, speed |-> None]

MoveOps == {"move_single_axis", "move_coordinated", "move_absolute", "home_axes"}

Init ==
    /\ config \in Configs
    /\ emergency_stop_active = FALSE
    /\ movement_in_progress = FALSE
    /\ connected \in BOOLEAN
    /\ driver_emergency_stop = FALSE
    /\ hw_estop = FALSE
    /\ pc = [t \in Callers |-> "idle"]
    /\ op = [t \in Callers |-> "-"]
    /\ args = [t \in Callers |-> NoArgs]
    /\ log = [t \in Callers |-> <<>>]
    /\ result = [t \in Callers |-> "none"]
    /\ estop_at_entry = [t \in Callers |-> FALSE]
    /\ scenario = "none"
    /\ jog_active = [c \in Channels |-> [axis \in {"x", "y"} |-> FALSE]]
    /\ ws_open = [c \in Channels |-> FALSE]
    /\ chan = None
    /\ jog_started = [c \in Channels |-> {}]
    /\ is_connected = connected
    /\ snapshot = None
    /\ timeout_at = [t \in Callers |-> None]
    /\ reply = None
    /\ hw_position = [axis \in Axes |-> 0]

(***************************************************************************)
(* Entry of each controller method: everything up to the first statement   *)
(* that touches the driver or the in-progress flag.  A method entered with *)
(* the flag set, or with arguments that fail validation, raises here.      *)
(***************************************************************************)
\* the call raised before reaching the driver
Raise(t, o, a, r) ==
    /\ pc' = [pc EXCEPT ![t] = "done"]
    /\ op' = [op EXCEPT ![t] = o]
    /\ args' = [args EXCEPT ![t] = a]
    /\ result' = [result EXCEPT ![t] = r]
    /\ estop_at_entry' = [estop_at_entry EXCEPT ![t] = emergency_stop_active]
    /\ UNCHANGED log

\* the call goes on to position p
Proceed(t, o, a, p) ==
    /\ pc' = [pc EXCEPT ![t] = p]
    /\ op' = [op EXCEPT ![t] = o]
    /\ args' = [args EXCEPT ![t] = a]
    /\ estop_at_entry' = [estop_at_entry EXCEPT ![t] = emergency_stop_active]
    /\ UNCHANGED <<log, result>>

\* mutant of move_single_axis: the default is substituted after validation,
\* so an omitted speed is not validated
move_single_axis_late_default(t, axis, distance, speed) ==
    /\ pc[t] = "idle"
    /\ LET a == [axis |-> axis, a |-> distance, b |-> 0, speed |-> speed]
       IN  IF emergency_stop_active
           THEN Raise(t, "move_single_axis", a, "RuntimeError:estop")
           ELSE IF speed # None /\ ~validate_movement(axis, distance, speed[1])
           THEN Raise(t, "move_single_axis", a, "ValueError:speed")
           ELSE Proceed(t, "move_single_axis", a, "begin")
    /\ UNCHANGED <<config, webVars, scenario, chan, wsVars, ctrlVars, drvVars>>

\* mutant of move_single_axis: the in-progress flag is raised before the
\* checks, outside the try block
move_single_axis_flag_first(t, axis, distance, speed) ==
    /\ pc[t] = "idle"
    /\ movement_in_progress' = TRUE
    /\ LET a == [axis |-> axis, a |-> distance, b |-> 0, speed |-> speed]
           s == substitute_speed(speed)
       IN  IF emergency_stop_active
           THEN Raise(t, "move_single_axis", a, "RuntimeError:estop")
           ELSE IF ~validate_movement(axis, distance, s)
           THEN Raise(t, "move_single_axis", a, "ValueError:speed")
           ELSE Proceed(t, "move_single_axis", a, "begin")
    /\ UNCHANGED <<config, webVars, scenario, chan, wsVars, emergency_stop_active,
                   drvVars>>

\* move_single_axis, lines 44-55
move_single_axis(t, axis, distance, speed) ==
    /\ pc[t] = "idle"
    /\ LET a == [axis |-> axis, a |-> distance, b |-> 0, speed |-> speed]
           s == substitute_speed(speed)
       IN  IF emergency_stop_active
           THEN Raise(t, "move_single_axis", a, "RuntimeError:estop")
           ELSE IF ~validate_movement(axis, distance, s)
           THEN Raise(t, "move_single_axis", a, "ValueError:speed")
           ELSE Proceed(t, "move_single_axis", a, "begin")
    /\ UNCHANGED <<config, webVars, scenario, chan, wsVars, ctrlVars, drvVars>>

\* move_absolute, lines 78-94
move_absolute(t, x_position, y_position, speed) ==
    /\ pc[t] = "idle"
    /\ LET a == [axis |-> "-", a |-> x_position, b |-> y_position, speed |-> speed]
           s == substitute_speed(speed)
       IN  IF emergency_stop_active
           THEN Raise(t, "move_absolute", a, "RuntimeError:estop")
           ELSE IF ~(validate_movement("x", x_position, s) /\
                     validate_movement("y", y_position, s))
           THEN Raise(t, "move_absolute", a, "ValueError:speed")
           ELSE Proceed(t, "move_absolute", a, "begin")
    /\ UNCHANGED <<config, webVars, scenario, chan, wsVars, ctrlVars, drvVars>>

\* move_coordinated, lines 119-135
move_coordinated(t, x_distance, y_distance, speed) ==
    /\ pc[t] = "idle"
    /\ LET a == [axis |-> "-", a |-> x_distance, b |-> y_distance, speed |-> speed]
           s == substitute_speed(speed)
       IN  IF emergency_stop_active
           THEN Raise(t, "move_coordinated", a, "RuntimeError:estop")
           ELSE IF ~(validate_movement("x", x_distance, s) /\
                     validate_movement("y", y_distance, s))
           THEN Raise(t, "move_coordinated", a, "ValueError:speed")
           ELSE Proceed(t, "move_coordinated", a, "begin")
    /\ UNCHANGED <<config, webVars, scenario, chan, wsVars, ctrlVars, drvVars>>

\* home_axes, lines 161-165: no check of the emergency-stop flag
home_axes(t) ==
    /\ pc[t] = "idle"
    /\ Proceed(t, "home_axes", NoArgs, "begin")
    /\ UNCHANGED <<config, webVars, scenario, chan, wsVars, ctrlVars, drvVars>>

\* mutant of emergency_stop: the flag is not set on entry
emergency_stop_flag_unset(t) ==
    /\ pc[t] = "idle"
    /\ Proceed(t, "emergency_stop", NoArgs, "connect")
    /\ UNCHANGED <<config, webVars, scenario, chan, wsVars, ctrlVars, drvVars>>

\* emergency_stop, lines 181-182: the flag is set before the driver is touched
emergency_stop(t) ==
    /\ pc[t] = "idle"
    /\ emergency_stop_active' = TRUE
    /\ Proceed(t, "emergency_stop", NoArgs, "connect")
    /\ UNCHANGED <<config, webVars, scenario, chan, wsVars, movement_in_progress, drvVars>>

\* mutant of clear_emergency_stop: the flag is left as it is
clear_emergency_stop_flag_kept(t) ==
    /\ pc[t] = "idle"
    /\ Proceed(t, "clear_emergency_stop", NoArgs, "connect")
    /\ UNCHANGED <<config, webVars, scenario, chan, wsVars, ctrlVars, drvVars>>

\* clear_emergency_stop, lines 194-195: the flag is lowered before the
\* driver is touched
clear_emergency_stop(t) ==
    /\ pc[t] = "idle"
    /\ emergency_stop_active' = FALSE
    /\ Proceed(t, "clear_emergency_stop", NoArgs, "connect")
    /\ UNCHANGED <<config, webVars, scenario, chan, wsVars, movement_in_progress, drvVars>>

\* get_emergency_stop_status, line 224
get_emergency_stop_status(t) ==
    /\ pc[t] = "idle"
    /\ Proceed(t, "get_emergency_stop_status", NoArgs, "connect")
    /\ UNCHANGED <<config, webVars, scenario, chan, wsVars, ctrlVars, drvVars>>

\* mutant of start_jog: the emergency-stop check is missing
start_jog_ungated(t, axis, direction, speed) ==
    /\ pc[t] = "idle"
    /\ Proceed(t, "start_jog",
               [axis |-> axis, a |-> direction, b |-> 0, speed |-> Some(speed)],
               "connect")
    /\ UNCHANGED <<config, webVars, scenario, wsVars, ctrlVars, drvVars>>

\* start_jog, lines 250-252: direction and speed are not validated.  chan is
\* left to the caller: a /ws/jog handler sets it, a direct call leaves it.
start_jog(t, axis, direction, speed) ==
    /\ pc[t] = "idle"
    /\ LET a == [axis |-> axis, a |-> direction, b |-> 0, speed |-> Some(speed)]
       IN  IF emergency_stop_active
           THEN Raise(t, "start_jog", a, "RuntimeError:estop")
           ELSE Proceed(t, "start_jog", a, "connect")
    /\ UNCHANGED <<config, webVars, scenario, wsVars, ctrlVars, drvVars>>

\* positions of a caller from which it calls stop_jog: free, or inside the
\* disconnect handler of a jog channel, before the x and before the y turn
StopJogCallPoints == {"idle", "ws_x", "ws_y"}

\* mutant of stop_jog: it checks the emergency-stop flag as start_jog does
stop_jog_gated(t, axis) ==
    /\ pc[t] \in StopJogCallPoints
    /\ LET a == [axis |-> axis, a |-> 0, b |-> 0, speed |-> None]
       IN  IF emergency_stop_active
           THEN Raise(t, "stop_jog", a, "RuntimeError:estop")
           ELSE Proceed(t, "stop_jog", a, "connect")
    /\ UNCHANGED <<config, webVars, scenario, wsVars, ctrlVars, drvVars>>

\* stop_jog, lines 268-269: no check of the emergency-stop flag, no record of
\* whether the axis is jogging.  chan is left to the caller, as in start_jog.
stop_jog(t, axis) ==
    /\ pc[t] \in StopJogCallPoints
    /\ Proceed(t, "stop_jog", [axis |-> axis, a |-> 0, b |-> 0, speed |-> None],
               "connect")
    /\ UNCHANGED <<config, webVars, scenario, wsVars, ctrlVars, drvVars>>

\* read_status on a driver whose _connected is cn
read_status_at(cn, ok) ==
    IF cn /\ ok
    THEN [connected |-> TRUE, emergency_stop |-> hw_estop]
    ELSE [connected |-> FALSE, emergency_stop |-> FALSE]

\* MesaDriver.get_status, lines 463-497: the snapshot it returns
get_status_snapshot(ok) ==
    [connected |-> read_status_at(connected, ok).connected,
     emergency_stop |-> driver_emergency_stop,
     error_state |-> ~read_status_at(connected, ok).connected]

\* mutant of io_channel: the two channels are exchanged
io_channel_swapped(io_name) == IF io_name = "down" THEN 1 ELSE 0

\* set_io, line 289: io_channel = 0 if io_name == 'down' else 1
io_channel(io_name) == IF io_name = "down" THEN 0 ELSE 1

\* set_io, lines 286-287: the name is checked before anything else; there is
\* no check of the emergency-stop flag
set_io(t, io_name, state) ==
    /\ pc[t] = "idle"
    /\ LET a == [axis |-> "-", a |-> 0, b |-> 0, speed |-> None,
                 io_name |-> io_name, state |-> state]
       IN  IF io_name \notin {"down", "start"}
           THEN Raise(t, "set_io", a, "ValueError:io")
           ELSE Proceed(t, "set_io", a, "connect")
    /\ UNCHANGED <<config, webVars, scenario, chan, wsVars, ctrlVars, drvVars>>

\* MesaDriver.get_status called by a client of the driver: it reads the
\* status when the driver is connected and returns a snapshot in every case
get_status(t) ==
    /\ pc[t] = "idle"
    /\ \E ok \in BOOLEAN :
          /\ snapshot' = Some(get_status_snapshot(ok))
          /\ log' = [log EXCEPT ![t] =
                       IF connected
                       THEN <<[Cmd("read_status", "-", 0, 0) EXCEPT
                                 !.ret = IF ok THEN "true" ELSE "false"]>>
                       ELSE <<>>]
    /\ pc' = [pc EXCEPT ![t] = "done"]
    /\ op' = [op EXCEPT ![t] = "get_status"]
    /\ result' = [result EXCEPT ![t] = "ok"]
    /\ estop_at_entry' = [estop_at_entry EXCEPT ![t] = emergency_stop_active]
    /\ UNCHANGED <<config, hw_position, is_connected, timeout_at, reply, scenario, chan,
                   wsVars, ctrlVars, drvVars, args>>

\* GET /status (webapi/main.py, get_status), with a controller that was
\* constructed at startup.  In order: the reply's status and connected are
\* taken from the global is_connected; get_emergency_stop_status connects if
\* needed (okc1), reads the status (okr1) and refreshes the flag; the global
\* is refreshed from the driver, with a second connect if needed (okc2);
\* when connected, read_status (okr2) gives mesa_status.  No step raises:
\* connect, read_status and get_emergency_stop_status catch what LinuxCNC
\* raises.
web_get_status(t) ==
    /\ pc[t] = "idle"
    /\ \E okc1 \in BOOLEAN, okr1 \in BOOLEAN, okc2 \in BOOLEAN, okr2 \in BOOLEAN :
          LET c1 == IF connected THEN TRUE ELSE okc1
              st1 == read_status_at(c1, okr1)
              flag == IF st1.connected THEN st1.emergency_stop
                      ELSE emergency_stop_active
              c2 == IF c1 THEN TRUE ELSE okc2
              mesa == IF c2 THEN Some(read_status_at(c2, okr2)) ELSE None
          IN  /\ snapshot' = Some([status |-> IF is_connected THEN "ok" ELSE "error",
                                   connected |-> is_connected,
                                   emergency_stop |-> flag,
                                   mesa_status |-> mesa])
              /\ emergency_stop_active' = flag
              /\ connected' = c2
              /\ is_connected' = c2
              /\ log' = [log EXCEPT ![t] =
                           <<[Cmd("read_status", "-", 0, 0) EXCEPT
                                !.ret = IF st1.connected THEN "true" ELSE "false"]>>
                           \o (IF c2
                               THEN <<[Cmd("read_status", "-", 0, 0) EXCEPT
                                         !.ret = IF mesa[1].connected
                                                 THEN "true" ELSE "false"]>>
                               ELSE <<>>)]
    /\ pc' = [pc EXCEPT ![t] = "done"]
    /\ op' = [op EXCEPT ![t] = "web_get_status"]
    /\ result' = [result EXCEPT ![t] = "ok"]
    /\ estop_at_entry' = [estop_at_entry EXCEPT ![t] = emergency_stop_active]
    /\ UNCHANGED <<config, hw_position, timeout_at, reply, scenario, chan, wsVars,
                   movement_in_progress, driver_emergency_stop, hw_estop, args>>

(***************************************************************************)
(* Steps inside a method                                                   *)
(***************************************************************************)
\* try: self._movement_in_progress = True
Begin(t) ==
    /\ pc[t] = "begin"
    /\ movement_in_progress' = TRUE
    /\ pc' = [pc EXCEPT ![t] = "connect"]
    /\ UNCHANGED <<config, webVars, scenario, chan, wsVars, emergency_stop_active, drvVars, op, args, log, result,
                   estop_at_entry>>

\* MesaDriver.connect: ok is whether LinuxCNC answered; a failure is caught
\* inside connect, which then returns False
connect(ok) ==
    /\ connected' = ok
    /\ UNCHANGED <<driver_emergency_stop, hw_estop>>

\* if not self.mesa_driver.is_connected(): self.mesa_driver.connect()
\* (the value connect returns is not looked at)
Connect(t) ==
    /\ pc[t] = "connect"
    /\ IF connected
       THEN UNCHANGED <<drvVars, log>>
       ELSE \E ok \in BOOLEAN :
               /\ connect(ok)
               /\ log' = [log EXCEPT ![t] =
                            Append(@, [Cmd("connect", "-", 0, 0) EXCEPT
                                         !.ret = IF ok THEN "true" ELSE "false"])]
    /\ pc' = [pc EXCEPT ![t] = "dispatch"]
    /\ UNCHANGED <<config, webVars, scenario, chan, wsVars, ctrlVars, op, args, result, estop_at_entry>>

\* number of invocations of driver method m in a log
Count(l, m) == Cardinality({i \in 1..Len(l) : l[i].m = m})

\* mutant of NextCmd: move_coordinated moves the Y axis first
NextCmd_y_first(t) ==
    CASE op[t] = "move_single_axis" ->
            Cmd("move_axis", args[t].axis, args[t].a, substitute_speed(args[t].speed))
      [] op[t] = "move_coordinated" ->
            IF Count(log[t], "move_axis") = 0
            THEN Cmd("move_axis", "y", args[t].b, substitute_speed(args[t].speed))
            ELSE Cmd("move_axis", "x", args[t].a, substitute_speed(args[t].speed))
      [] op[t] = "move_absolute" ->
            Cmd("move_absolute", "-", args[t].a, args[t].b)
      [] op[t] = "home_axes" -> Cmd("home_all_axes", "-", 0, 0)
      [] op[t] = "emergency_stop" -> Cmd("emergency_stop", "-", 0, 0)
      [] op[t] = "clear_emergency_stop" -> Cmd("clear_emergency_stop", "-", 0, 0)
      [] op[t] = "get_emergency_stop_status" -> Cmd("read_status", "-", 0, 0)
      [] op[t] = "start_jog" ->
            Cmd("start_jog", args[t].axis, args[t].a, args[t].speed[1])
      [] op[t] = "stop_jog" -> Cmd("stop_jog", args[t].axis, 0, 0)
      [] op[t] = "set_io" ->
            Cmd("set_io", "-", io_channel(args[t].io_name), args[t].state)

\* the driver method the controller method calls next
NextCmd(t) ==
    CASE op[t] = "move_single_axis" ->
            Cmd("move_axis", args[t].axis, args[t].a, substitute_speed(args[t].speed))
      [] op[t] = "move_coordinated" ->
            IF Count(log[t], "move_axis") = 0
            THEN Cmd("move_axis", "x", args[t].a, substitute_speed(args[t].speed))
            ELSE Cmd("move_axis", "y", args[t].b, substitute_speed(args[t].speed))
      [] op[t] = "move_absolute" ->
            Cmd("move_absolute", "-", args[t].a, args[t].b)
      [] op[t] = "home_axes" -> Cmd("home_all_axes", "-", 0, 0)
      [] op[t] = "emergency_stop" -> Cmd("emergency_stop", "-", 0, 0)
      [] op[t] = "clear_emergency_stop" -> Cmd("clear_emergency_stop", "-", 0, 0)
      [] op[t] = "get_emergency_stop_status" -> Cmd("read_status", "-", 0, 0)
      [] op[t] = "start_jog" ->
            Cmd("start_jog", args[t].axis, args[t].a, args[t].speed[1])
      [] op[t] = "stop_jog" -> Cmd("stop_jog", args[t].axis, 0, 0)
      [] op[t] = "set_io" ->
            Cmd("set_io", "-", io_channel(args[t].io_name), args[t].state)

\* the controller calls the driver method: the call is in flight from here
\* until Complete
Dispatch(t) ==
    /\ pc[t] = "dispatch"
    /\ log' = [log EXCEPT ![t] = Append(@, NextCmd(t))]
    /\ pc' = [pc EXCEPT ![t] = "incall"]
    /\ UNCHANGED <<config, webVars, scenario, chan, wsVars, ctrlVars, drvVars, op, args, result, estop_at_entry>>

(***************************************************************************)
(* MesaDriver methods.  ok says whether the LinuxCNC calls of the method   *)
(* went through; when one raises, the method catches it and returns False. *)
(* X_ret is the value method X returns, X_effect what it does.             *)
(***************************************************************************)
\* move_axis, lines 214-254
move_axis_ret(axis, ok) == axis \in {"x", "y"} /\ connected /\ ok

\* move_absolute, lines 508-539
move_absolute_ret(ok) == connected /\ ok

\* home_all_axes, lines 390-418
home_all_axes_ret(ok) == connected /\ ok

\* start_jog, lines 576-613
start_jog_ret(axis, direction, ok) ==
    axis \in {"x", "y"} /\ direction \in {1, -1} /\ connected /\ ok

\* stop_jog, lines 615-648
stop_jog_ret(axis, ok) == axis \in {"x", "y"} /\ connected /\ ok

\* set_io, lines 541-574
set_io_ret(channel, ok) == connected /\ channel \in {0, 1} /\ ok

\* home_axis, lines 350-388
home_axis_ret(axis, ok) == connected /\ axis \in {"x", "y"} /\ ok

\* emergency_stop, lines 277-298
emergency_stop_ret(ok) == connected /\ ok

\* mutant of emergency_stop_effect: the command is sent without looking at
\* _connected
emergency_stop_effect_unguarded(ok) ==
    /\ IF ok
       THEN /\ hw_estop' = TRUE
            /\ driver_emergency_stop' = TRUE
       ELSE UNCHANGED <<hw_estop, driver_emergency_stop>>
    /\ UNCHANGED connected

emergency_stop_effect(ok) ==
    /\ IF connected /\ ok
       THEN /\ hw_estop' = TRUE
            /\ driver_emergency_stop' = TRUE
       ELSE UNCHANGED <<hw_estop, driver_emergency_stop>>
    /\ UNCHANGED connected

\* clear_emergency_stop, lines 300-320: state(ESTOP_RESET), wait, state(ON),
\* wait; reset says whether the first command got through when a later one
\* raised
clear_emergency_stop_ret(ok) == connected /\ ok

clear_emergency_stop_effect(ok, reset) ==
    /\ hw_estop' = IF connected /\ (ok \/ reset) THEN FALSE ELSE hw_estop
    /\ driver_emergency_stop' =
          IF connected /\ ok THEN FALSE ELSE driver_emergency_stop
    /\ UNCHANGED connected

\* read_status, lines 116-190
read_status(ok) ==
    IF connected /\ ok
    THEN [connected |-> TRUE, emergency_stop |-> hw_estop]
    ELSE [connected |-> FALSE, emergency_stop |-> FALSE]

\* what the driver method of command c returns
DriverRet(c, ok) ==
    CASE c.m = "move_axis" -> move_axis_ret(c.axis, ok)
      [] c.m = "move_absolute" -> move_absolute_ret(ok)
      [] c.m = "home_all_axes" -> home_all_axes_ret(ok)
      [] c.m = "start_jog" -> start_jog_ret(c.axis, c.p, ok)
      [] c.m = "stop_jog" -> stop_jog_ret(c.axis, ok)
      [] c.m = "set_io" -> set_io_ret(c.p, ok)
      [] c.m = "home_axis" -> home_axis_ret(c.axis, ok)
      [] c.m = "emergency_stop" -> emergency_stop_ret(ok)
      [] c.m = "clear_emergency_stop" -> clear_emergency_stop_ret(ok)
      [] c.m = "read_status" -> read_status(ok).connected

\* what the driver method of command c does to the driver and the hardware
DriverEffect(c, ok, reset) ==
    CASE c.m = "emergency_stop" -> emergency_stop_effect(ok)
      [] c.m = "clear_emergency_stop" -> clear_emergency_stop_effect(ok, reset)
      [] OTHER -> UNCHANGED drvVars

\* controller methods that raise RuntimeError when the driver method returns
\* False (lines 60, 140-143, 170, 256, 272, 296); the others drop the
\* returned value (lines 99, 186, 199)
ChecksReturn(o) ==
    o \in {"move_single_axis", "move_coordinated", "home_axes", "start_jog",
           "stop_jog", "set_io"}

\* the result of the controller method once the driver returned r
Outcome(o, r) ==
    IF ChecksReturn(o) /\ ~r THEN "RuntimeError:backend" ELSE "ok"

\* mutant of refresh_flag: the flag follows the status read even when the
\* read failed
refresh_flag_uncached(st) == st.emergency_stop

\* get_emergency_stop_status, lines 227-232: the flag follows the status read
refresh_flag(st) ==
    IF st.connected THEN st.emergency_stop ELSE emergency_stop_active

\* the axes a channel has started and not stopped, after the driver method
\* of command c returned r: kept while the channel's handler is receiving
\* messages, frozen once it has disconnected
jog_started_after(c, r) ==
    IF chan # None /\ ws_open[chan[1]] /\ r
    THEN CASE c.m = "start_jog" ->
                [jog_started EXCEPT ![chan[1]] = @ \cup {c.axis}]
           [] c.m = "stop_jog" ->
                [jog_started EXCEPT ![chan[1]] = @ \ {c.axis}]
           [] OTHER -> jog_started
    ELSE jog_started

\* mutant of Complete: a command the driver failed is issued a second time
Complete_retry(t) ==
    /\ pc[t] = "incall"
    /\ \E ok \in BOOLEAN, reset \in BOOLEAN :
         LET c == log[t][Len(log[t])]
             r == DriverRet(c, ok)
             more == \/ /\ op[t] = "move_coordinated"
                        /\ Count(log[t], "move_axis") = 1
                        /\ r
                     \/ /\ ~r
                        /\ c.m \in {"move_axis", "clear_emergency_stop"}
                        /\ Count(log[t], c.m) = 1
         IN /\ DriverEffect(c, ok, reset)
            /\ log' = [log EXCEPT ![t][Len(log[t])].ret =
                          IF r THEN "true" ELSE "false"]
            /\ result' = [result EXCEPT ![t] =
                          IF more THEN "none" ELSE Outcome(op[t], r)]
            /\ pc' = [pc EXCEPT ![t] =
                          IF more THEN "dispatch"
                          ELSE IF op[t] \in MoveOps THEN "finally" ELSE "done"]
            /\ emergency_stop_active' =
                  IF op[t] = "get_emergency_stop_status"
                  THEN refresh_flag(read_status(ok))
                  ELSE emergency_stop_active
            /\ jog_started' = jog_started_after(c, r)
    /\ UNCHANGED <<config, webVars, scenario, chan, jog_active, ws_open,
                   movement_in_progress, op, args, estop_at_entry>>

\* the driver method runs and returns; the controller handles what it returned
Complete(t) ==
    /\ pc[t] = "incall"
    /\ \E ok \in BOOLEAN, reset \in BOOLEAN :
         LET c == log[t][Len(log[t])]
             r == DriverRet(c, ok)
             more == /\ op[t] = "move_coordinated"
                     /\ Count(log[t], "move_axis") = 1
                     /\ r
         IN /\ DriverEffect(c, ok, reset)
            /\ log' = [log EXCEPT ![t][Len(log[t])].ret =
                          IF r THEN "true" ELSE "false"]
            /\ result' = [result EXCEPT ![t] =
                          IF more THEN "none" ELSE Outcome(op[t], r)]
            /\ pc' = [pc EXCEPT ![t] =
                          IF more THEN "dispatch"
                          ELSE IF op[t] \in MoveOps THEN "finally" ELSE "done"]
            /\ emergency_stop_active' =
                  IF op[t] = "get_emergency_stop_status"
                  THEN refresh_flag(read_status(ok))
                  ELSE emergency_stop_active
            /\ jog_started' = jog_started_after(c, r)
    /\ UNCHANGED <<config, webVars, scenario, chan, jog_active, ws_open,
                   movement_in_progress, op, args, estop_at_entry>>

\* mutant of Finally: the flag is left set when the driver call failed
Finally_only_on_success(t) ==
    /\ pc[t] = "finally"
    /\ movement_in_progress' = (result[t] # "ok")
    /\ pc' = [pc EXCEPT ![t] = "done"]
    /\ UNCHANGED <<config, webVars, scenario, chan, wsVars, emergency_stop_active, drvVars, op, args, log, result,
                   estop_at_entry>>

\* finally: self._movement_in_progress = False
Finally(t) ==
    /\ pc[t] = "finally"
    /\ movement_in_progress' = FALSE
    /\ pc' = [pc EXCEPT ![t] = "done"]
    /\ UNCHANGED <<config, webVars, scenario, chan, wsVars, emergency_stop_active, drvVars, op, args, log, result,
                   estop_at_entry>>

\* the last driver method caller t invoked
LastCmd(t) == log[t][Len(log[t])]

\* scenario once the call of caller t has returned or raised
scenario_after(t) ==
    CASE op[t] = "emergency_stop" -> "estop"
      [] /\ op[t] = "move_absolute"
         /\ scenario \in {"estop", "blocked"}
         /\ result[t] = "RuntimeError:estop" -> "blocked"
      [] /\ op[t] = "clear_emergency_stop"
         /\ scenario = "blocked"
         /\ log[t] # <<>>
         /\ LastCmd(t).m = "clear_emergency_stop"
         /\ LastCmd(t).ret = "true" -> "cleared"
      [] OTHER -> "none"

\* websocket_jog, lines 474 and 484: jog_active[axis] is set after start_jog
\* returned and cleared after stop_jog returned; a call that raised leaves it
record_jog(c, o, axis, r) ==
    IF r = "ok" /\ o \in {"start_jog", "stop_jog"}
    THEN [jog_active EXCEPT ![c][axis] = (o = "start_jog")]
    ELSE jog_active

\* mutant of cleanup_next: the try encloses the loop, so a stop_jog that
\* raises ends the disconnect handler
cleanup_next_abort(axis, r) ==
    IF axis = "x" /\ r = "ok" THEN "ws_y" ELSE "ws_done"

\* websocket_jog, lines 494-499: for axis in ["x", "y"], with the exception of
\* a stop_jog passed over: where the disconnect handler goes after the turn
\* of axis, r being the result of its stop_jog
cleanup_next(axis, r) == IF axis = "x" THEN "ws_y" ELSE "ws_done"

\* the method returns, or its exception reaches the caller.  A direct caller
\* is free again; a jog channel's message handler records the jog and goes
\* on to reply; a jog channel's disconnect handler passes to its next turn.
Return(t) ==
    /\ pc[t] = "done"
    /\ scenario' = scenario_after(t)
    /\ IF t = Main /\ chan # None /\ ws_open[chan[1]]
       THEN /\ pc' = [pc EXCEPT ![t] = "ws_reply"]
            /\ jog_active' = record_jog(chan[1], op[t], args[t].axis, result[t])
            /\ UNCHANGED <<op, args, log, result, estop_at_entry, chan, ws_open,
                           jog_started>>
       ELSE /\ pc' = [pc EXCEPT ![t] =
                        IF t = Main /\ chan # None
                        THEN cleanup_next(args[t].axis, result[t]) ELSE "idle"]
            /\ op' = [op EXCEPT ![t] = "-"]
            /\ args' = [args EXCEPT ![t] = NoArgs]
            /\ log' = [log EXCEPT ![t] =
                        IF t = Main /\ chan # None THEN @ ELSE <<>>]
            /\ result' = [result EXCEPT ![t] = "none"]
            /\ estop_at_entry' = [estop_at_entry EXCEPT ![t] = FALSE]
            /\ UNCHANGED <<chan, wsVars>>
    /\ timeout_at' = [timeout_at EXCEPT ![t] = None]
    /\ UNCHANGED <<config, hw_position, is_connected, snapshot, reply, ctrlVars, drvVars>>

(***************************************************************************)
(* POST /move and POST /move_to (webapi/main.py): the handler hands the     *)
(* controller call to an executor thread and awaits it under                *)
(* asyncio.wait_for.                                                        *)
(***************************************************************************)
\* driver methods other than connect that a call has invoked
Dispatched(l) == Len(SelectSeq(l, LAMBDA c : c.m # "connect"))

\* positions of a thread that has started the controller method and has not
\* left it
InMethod == {"begin", "connect", "dispatch", "incall", "finally"}

\* asyncio.wait_for(..., timeout=5.0) of move_axis (lines 353-356, 366-368)
\* and timeout=15.0 of move_to_position (lines 232-238): the timeout passes
\* while the executor thread t is inside the controller method.  wait_for
\* cancels the future it awaits and the handler replies 408; the thread is
\* not interrupted and goes on from where it is.
wait_for_timeout(t) ==
    /\ pc[t] \in InMethod
    /\ op[t] \in {"move_single_axis", "move_absolute"}
    /\ timeout_at[t] = None
    /\ timeout_at' = [timeout_at EXCEPT ![t] =
                         Some([n |-> Dispatched(log[t]),
                               in_call |-> pc[t] = "incall"])]
    /\ UNCHANGED <<config, hw_position, is_connected, snapshot, reply, scenario, chan,
                   wsVars, ctrlVars, drvVars, callVars>>

\* fallback of config_manager.get('movement.default_speed', 10.0) in move_axis
FallbackWebDefaultSpeed == 10

\* get_current_position, lines 245-258: the position read_status reports, or
\* zeros when the read did not succeed
get_current_position(okr) ==
    IF is_connected /\ read_status_at(connected, okr).connected
    THEN hw_position
    ELSE [axis \in Axes |-> 0]

\* POST /move, lines 313-354, up to the point where the executor thread t
\* has entered move_single_axis: is_connected is tested, the target is
\* computed from the position just read and validated, an absent speed is
\* replaced by the default
web_move(t, axis, distance, speed) ==
    /\ pc[t] = "idle"
    /\ hw_position[axis] + distance \in -MaxReach..MaxReach
    /\ IF ~is_connected
       THEN /\ reply' = Some([endpoint |-> "move", status |-> "HTTP503",
                              outcome |-> "none"])
            /\ UNCHANGED <<config, hw_position, is_connected, snapshot,
                           timeout_at, scenario, chan, wsVars, ctrlVars,
                           drvVars, callVars>>
       ELSE \E okr \in BOOLEAN :
               LET new_position == get_current_position(okr)[axis] + distance
               IN  IF ~validate_position(axis, new_position)
                   THEN /\ reply' = Some([endpoint |-> "move",
                                          status |-> "HTTP400",
                                          outcome |-> "none"])
                        /\ UNCHANGED <<config, hw_position, is_connected,
                                       snapshot, timeout_at, scenario, chan,
                                       wsVars, ctrlVars, drvVars, callVars>>
                   ELSE move_single_axis(t, axis, distance,
                           IF speed = None
                           THEN Some(ConfigGet("movement.default_speed",
                                               FallbackWebDefaultSpeed))
                           ELSE speed)

\* the driver's move_axis called by move_single_axis returns, and the
\* controller handles what it returned; when the jog command was sent the
\* axis goes to its new position
move_axis_done(t) ==
    /\ pc[t] = "incall"
    /\ op[t] = "move_single_axis"
    /\ \E ok \in BOOLEAN :
         LET c == log[t][Len(log[t])]
             r == move_axis_ret(c.axis, ok)
         IN /\ hw_position' = IF r THEN [hw_position EXCEPT ![c.axis] = @ + c.p]
                              ELSE hw_position
            /\ log' = [log EXCEPT ![t][Len(log[t])].ret =
                          IF r THEN "true" ELSE "false"]
            /\ result' = [result EXCEPT ![t] = Outcome(op[t], r)]
    /\ pc' = [pc EXCEPT ![t] = "finally"]
    /\ UNCHANGED <<config, is_connected, snapshot, timeout_at, reply, scenario,
                   chan, wsVars, ctrlVars, drvVars, op, args, estop_at_entry>>

(***************************************************************************)
(* The other endpoints of the web API.  A handler that finds is_connected  *)
(* false replies 503 at once; otherwise it calls the controller method and *)
(* replies when that has returned or raised.                               *)
(***************************************************************************)
\* the reply "Mesa board not connected" (lines 402-403, 419-420)
Reply503(endpoint) ==
    /\ reply' = Some([endpoint |-> endpoint, status |-> "HTTP503",
                      outcome |-> "none"])
    /\ UNCHANGED <<config, hw_position, is_connected, snapshot, timeout_at, scenario, chan,
                   wsVars, ctrlVars, drvVars, callVars>>

\* POST /emergency_stop, lines 402-406
web_emergency_stop(t) ==
    /\ pc[t] = "idle"
    /\ IF is_connected THEN emergency_stop(t) ELSE Reply503("emergency_stop")

\* POST /clear_emergency_stop, lines 419-423
web_clear_emergency_stop(t) ==
    /\ pc[t] = "idle"
    /\ IF is_connected THEN clear_emergency_stop(t)
       ELSE Reply503("clear_emergency_stop")

\* POST /api/home, lines 660-664, with a controller that was constructed at
\* startup: is_connected is not looked at
web_home(t) == home_axes(t)

\* the status of the reply once controller method o has ended with r: the
\* handlers turn an exception into a 500 (lines 412-414, 429-431), but the
\* homing handler logs it and replies {"status": "ok"} (lines 665-670)
handler_status(o, r) ==
    IF o = "home_axes" \/ r = "ok" THEN "ok" ELSE "HTTP500"

\* the controller method has returned or raised: the handler replies
web_reply(t) ==
    /\ pc[t] = "done"
    /\ reply' = Some([endpoint |-> op[t],
                      status |-> handler_status(op[t], result[t]),
                      outcome |-> result[t]])
    /\ scenario' = scenario_after(t)
    /\ pc' = [pc EXCEPT ![t] = "idle"]
    /\ op' = [op EXCEPT ![t] = "-"]
    /\ args' = [args EXCEPT ![t] = NoArgs]
    /\ log' = [log EXCEPT ![t] = <<>>]
    /\ result' = [result EXCEPT ![t] = "none"]
    /\ estop_at_entry' = [estop_at_entry EXCEPT ![t] = FALSE]
    /\ UNCHANGED <<config, hw_position, is_connected, snapshot, timeout_at, chan, wsVars,
                   ctrlVars, drvVars>>

(***************************************************************************)
(* A client that holds a MesaDriver and calls its methods directly, in any *)
(* state of the driver.                                                    *)
(***************************************************************************)
\* the calls of command methods the client makes
DriverCalls ==
    {Cmd("move_axis", axis, d, 1) : axis \in AxisArgs, d \in Distances}
    \cup {Cmd("move_absolute", "-", 2, 2), Cmd("home_all_axes", "-", 0, 0),
          Cmd("emergency_stop", "-", 0, 0), Cmd("clear_emergency_stop", "-", 0, 0)}
    \cup {Cmd("home_axis", axis, 0, 0) : axis \in AxisArgs}
    \cup {Cmd("start_jog", axis, dir, 1) : axis \in Axes, dir \in JogDirectionArgs}
    \cup {Cmd("stop_jog", axis, 0, 0) : axis \in AxisArgs}
    \cup {Cmd("set_io", "-", ch, st) : ch \in {0, 1, 2}, st \in BOOLEAN}

\* the command method of call c gets as far as a call on self.command: its
\* tests of the arguments and of is_connected() have passed
issues_command(c) == DriverRet(c, TRUE)

\* one call of a command method: what it returns, whether it got as far as
\* LinuxCNC, and what it did to the driver and the machine
driver_call(t, c) ==
    /\ pc[t] = "idle"
    /\ c.m = "move_axis" /\ c.axis \in Axes =>
          hw_position[c.axis] + c.p \in -MaxReach..MaxReach
    /\ \E ok \in BOOLEAN, reset \in BOOLEAN :
          LET r == DriverRet(c, ok)
          IN  /\ DriverEffect(c, ok, reset)
              /\ hw_position' = IF c.m = "move_axis" /\ r
                                THEN [hw_position EXCEPT ![c.axis] = @ + c.p]
                                ELSE hw_position
              /\ log' = [log EXCEPT ![t] =
                           <<[m |-> c.m, axis |-> c.axis, p |-> c.p, q |-> c.q,
                              ret |-> IF r THEN "true" ELSE "false",
                              sent |-> issues_command(c)]>>]
              /\ result' = [result EXCEPT ![t] = "ok"]
    /\ pc' = [pc EXCEPT ![t] = "done"]
    /\ op' = [op EXCEPT ![t] = "driver_call"]
    /\ UNCHANGED <<config, is_connected, snapshot, timeout_at, reply, scenario,
                   chan, wsVars, ctrlVars, args, estop_at_entry>>

\* MesaDriver.connect called by the client, lines 72-102
driver_connect(t) ==
    /\ pc[t] = "idle"
    /\ \E ok \in BOOLEAN : connect(ok)
    /\ UNCHANGED <<config, webVars, scenario, chan, wsVars, ctrlVars, callVars>>

\* MesaDriver.disconnect called by the client, lines 104-110
driver_disconnect(t) ==
    /\ pc[t] = "idle"
    /\ connected' = FALSE
    /\ UNCHANGED <<config, webVars, scenario, chan, wsVars, ctrlVars, callVars,
                   driver_emergency_stop, hw_estop>>

(***************************************************************************)
(* The command line (src/src/cli/commands.py): MovementCommands holds one   *)
(* MovementController; StatusCommands holds an AxisManager of its own.     *)
(* MovementCommands is taken as constructed: as written, its __init__      *)
(* passes MovementController a second argument that                        *)
(* MovementController.__init__ does not take.                              *)
(***************************************************************************)
\* MovementCommands.move_x / move_y, lines 38-43 and 57-62
cli_move(t, axis, distance, speed) ==
    move_single_axis(t, axis, distance, Some(substitute_speed(speed)))

\* MovementCommands.home_all, lines 93-94
cli_home_all(t) == home_axes(t)

\* MovementCommands.emergency_stop, line 139
cli_emergency_stop(t) == emergency_stop(t)

\* a command that builds a MesaDriver of its own, connects it, calls one
\* driver method c on it and disconnects it (lines 114-128, 153-161): okc is
\* whether connect succeeded, ok whether the LinuxCNC calls of the method
\* went through.  The controller and its driver are not involved.
own_driver_call(t, o, a, c) ==
    /\ pc[t] = "idle"
    /\ \E okc \in BOOLEAN, ok \in BOOLEAN :
          /\ log' = [log EXCEPT ![t] =
                       <<[Cmd("connect", "-", 0, 0) EXCEPT
                            !.ret = IF okc THEN "true" ELSE "false"]>>
                       \o (IF okc
                           THEN <<[c EXCEPT !.ret = IF ok THEN "true" ELSE "false"]>>
                           ELSE <<>>)]
          /\ result' = [result EXCEPT ![t] =
                          IF ~okc THEN "RuntimeError:connect"
                          ELSE IF ~ok THEN "RuntimeError:backend" ELSE "ok"]
    /\ pc' = [pc EXCEPT ![t] = "done"]
    /\ op' = [op EXCEPT ![t] = o]
    /\ args' = [args EXCEPT ![t] = a]
    /\ estop_at_entry' = [estop_at_entry EXCEPT ![t] = emergency_stop_active]
    /\ UNCHANGED <<config, webVars, scenario, chan, wsVars, ctrlVars, drvVars>>

\* MovementCommands.move_absolute, lines 145-161
cli_move_absolute(t, x, y) ==
    own_driver_call(t, "cli_move_absolute",
                    [axis |-> "-", a |-> x, b |-> y, speed |-> None],
                    Cmd("move_absolute", "-", x, y))

\* MovementCommands.home_axis, lines 100-132
cli_home_axis(t, axis) ==
    IF axis \notin {"x", "y"}
    THEN /\ pc[t] = "idle"
         /\ Raise(t, "cli_home_axis",
                  [axis |-> axis, a |-> 0, b |-> 0, speed |-> None],
                  "ValueError:axis")
         /\ UNCHANGED <<config, webVars, scenario, chan, wsVars, ctrlVars, drvVars>>
    ELSE own_driver_call(t, "cli_home_axis",
                         [axis |-> axis, a |-> 0, b |-> 0, speed |-> None],
                         Cmd("home_axis", axis, 0, 0))

\* AxisManager.get_system_status, lines 43-53 and 74-83: the simulated state
\* the manager was built with; StatusCommands calls nothing that changes it
axis_manager_system_state ==
    [connected |-> FALSE, emergency_stop |-> FALSE, error_state |-> FALSE]

\* StatusCommands.get_status, lines 205-235
cli_get_status(t) ==
    /\ pc[t] = "idle"
    /\ snapshot' = Some(axis_manager_system_state)
    /\ pc' = [pc EXCEPT ![t] = "done"]
    /\ op' = [op EXCEPT ![t] = "cli_get_status"]
    /\ result' = [result EXCEPT ![t] = "ok"]
    /\ estop_at_entry' = [estop_at_entry EXCEPT ![t] = emergency_stop_active]
    /\ UNCHANGED <<config, hw_position, is_connected, timeout_at, reply, scenario, chan,
                   wsVars, ctrlVars, drvVars, args, log>>

(***************************************************************************)
(* /ws/jog: the handler of a jog channel (webapi/main.py, websocket_jog).   *)
(* It runs on the event loop; between two awaits nothing else runs there.  *)
(***************************************************************************)
\* await websocket.accept(); jog_active = {"x": False, "y": False}
ws_accept(c) ==
    /\ pc[Main] = "idle"
    /\ ~ws_open[c]
    /\ ws_open' = [ws_open EXCEPT ![c] = TRUE]
    /\ jog_active' = [jog_active EXCEPT ![c] = [axis \in {"x", "y"} |-> FALSE]]
    /\ UNCHANGED <<config, webVars, scenario, chan, jog_started, ctrlVars, drvVars,
                   callVars>>

\* a message {"action": "start", ...}: the controller's start_jog is called
\* when the handler's own test of the parameters passes (line 471); otherwise
\* the handler only replies with an error
ws_start(c, axis, direction, speed) ==
    /\ ws_open[c]
    /\ pc[Main] = "idle"
    /\ IF axis \in {"x", "y"} /\ direction \in {1, -1}
       THEN /\ start_jog(Main, axis, direction, speed)
            /\ chan' = Some(c)
       ELSE UNCHANGED vars

\* a message {"action": "stop", ...} (line 480)
ws_stop(c, axis) ==
    /\ ws_open[c]
    /\ pc[Main] = "idle"
    /\ IF axis \in {"x", "y"}
       THEN /\ stop_jog(Main, axis)
            /\ chan' = Some(c)
       ELSE UNCHANGED vars

\* await websocket.send_json(...): the handler yields the event loop
ws_reply(t) ==
    /\ pc[t] = "ws_reply"
    /\ pc' = [pc EXCEPT ![t] = "idle"]
    /\ op' = [op EXCEPT ![t] = "-"]
    /\ args' = [args EXCEPT ![t] = NoArgs]
    /\ log' = [log EXCEPT ![t] = <<>>]
    /\ result' = [result EXCEPT ![t] = "none"]
    /\ estop_at_entry' = [estop_at_entry EXCEPT ![t] = FALSE]
    /\ chan' = None
    /\ UNCHANGED <<config, webVars, scenario, wsVars, ctrlVars, drvVars>>

\* receive_text raises WebSocketDisconnect (line 494): the disconnect
\* handler starts
ws_disconnect(c) ==
    /\ ws_open[c]
    /\ pc[Main] = "idle"
    /\ ws_open' = [ws_open EXCEPT ![c] = FALSE]
    /\ chan' = Some(c)
    /\ pc' = [pc EXCEPT ![Main] = "ws_x"]
    /\ UNCHANGED <<config, webVars, scenario, jog_active, jog_started, ctrlVars, drvVars,
                   op, args, log, result, estop_at_entry>>

\* one turn of the loop of lines 496-501: stop_jog is called for an axis
\* whose jog_active is set
ws_cleanup(t) ==
    /\ pc[t] \in {"ws_x", "ws_y"}
    /\ LET axis == IF pc[t] = "ws_x" THEN "x" ELSE "y"
       IN  IF jog_active[chan[1]][axis]
           THEN stop_jog(t, axis) /\ UNCHANGED chan
           ELSE /\ pc' = [pc EXCEPT ![t] = cleanup_next(axis, "ok")]
                /\ UNCHANGED <<config, webVars, scenario, chan, wsVars, ctrlVars, drvVars,
                               op, args, log, result, estop_at_entry>>

\* the handler ends; its jog_active goes with it
ws_closed(t) ==
    /\ pc[t] = "ws_done"
    /\ pc' = [pc EXCEPT ![t] = "idle"]
    /\ log' = [log EXCEPT ![t] = <<>>]
    /\ jog_active' = [jog_active EXCEPT ![chan[1]] = [axis \in {"x", "y"} |-> FALSE]]
    /\ jog_started' = [jog_started EXCEPT ![chan[1]] = {}]
    /\ chan' = None
    /\ UNCHANGED <<config, webVars, scenario, ws_open, ctrlVars, drvVars, op, args, result,
                   estop_at_entry>>

(***************************************************************************)
(* Specifications                                                          *)
(***************************************************************************)
\* one thread calls the controller, one call at a time
Next ==
    \/ \E axis \in AxisArgs, d \in Distances, s \in SpeedArgs :
          move_single_axis(Main, axis, d, s)
    \/ \E x \in Distances, y \in Distances, s \in SpeedArgs :
          move_absolute(Main, x, y, s)
    \/ \E x \in Distances, y \in Distances, s \in SpeedArgs :
          move_coordinated(Main, x, y, s)
    \/ home_axes(Main)
    \/ emergency_stop(Main)
    \/ clear_emergency_stop(Main)
    \/ get_emergency_stop_status(Main)
    \/ \E axis \in AxisArgs, dir \in JogDirectionArgs, s \in JogSpeedArgs :
          start_jog(Main, axis, dir, s) /\ UNCHANGED chan
    \/ \E axis \in Axes : stop_jog(Main, axis) /\ UNCHANGED chan
    \/ \E io_name \in IoNames, state \in BOOLEAN : set_io(Main, io_name, state)
    \/ Begin(Main)
    \/ Connect(Main)
    \/ Dispatch(Main)
    \/ Complete(Main)
    \/ Finally(Main)
    \/ Return(Main)

Spec == Init /\ [][Next]_vars

\* the web API: /move, /move_to and /api/home run the controller call on a
\* worker thread; the emergency-stop, status and jog handlers call it on the
\* event loop, one handler at a time.  The steps of the workers and of the
\* event loop interleave at every step.
NextConc ==
    \/ \E t \in Workers, axis \in Axes, d \in ConcDistances, s \in ConcSpeedArgs :
          move_single_axis(t, axis, d, s)
    \/ \E t \in Workers, x \in ConcDistances, y \in ConcDistances, s \in ConcSpeedArgs :
          move_absolute(t, x, y, s)
    \/ \E t \in Workers : home_axes(t)
    \/ emergency_stop(Main)
    \/ clear_emergency_stop(Main)
    \/ get_emergency_stop_status(Main)
    \/ \E axis \in Axes, dir \in ConcJogDirections, s \in JogSpeeds :
          start_jog(Main, axis, dir, s) /\ UNCHANGED chan
    \/ \E t \in Workers : Begin(t)
    \/ \E t \in Callers : Connect(t)
    \/ \E t \in Callers : Dispatch(t)
    \/ \E t \in Callers : Complete(t)
    \/ \E t \in Workers : Finally(t)
    \/ \E t \in Callers : Return(t)

\* the web API after a startup whose connect succeeded (webapi/main.py, lines
\* 141-146), with a configuration file that names none of the keys the
\* controller reads
InitConc == Init /\ config = <<>> /\ connected

SpecConc == InitConc /\ [][NextConc]_vars

\* the jog channels of the web API together with the emergency-stop
\* handlers: all of them run on the event loop
NextJog ==
    \/ \E c \in Channels : ws_accept(c)
    \/ \E c \in Channels, axis \in WsAxes, dir \in JogDirections, s \in JogSpeeds :
          ws_start(c, axis, dir, s)
    \/ \E c \in Channels, axis \in WsAxes : ws_stop(c, axis)
    \/ \E c \in Channels : ws_disconnect(c)
    \/ ws_cleanup(Main)
    \/ ws_closed(Main)
    \/ ws_reply(Main)
    \/ emergency_stop(Main)
    \/ clear_emergency_stop(Main)
    \/ Connect(Main)
    \/ Dispatch(Main)
    \/ Complete(Main)
    \/ Return(Main)

SpecJog == Init /\ [][NextJog]_vars

\* the status reads, of the driver and of the web API, together with the
\* emergency-stop methods, by one caller
NextStatus ==
    \/ get_status(Main)
    \/ web_get_status(Main)
    \/ emergency_stop(Main)
    \/ clear_emergency_stop(Main)
    \/ Connect(Main)
    \/ Dispatch(Main)
    \/ Complete(Main)
    \/ Return(Main)

SpecStatus == Init /\ [][NextStatus]_vars

\* the axis that is jogged and stopped in the specification below
CancelAxes == {"x"}

\* callers of the controller on threads of their own that start and stop
\* jogs, while emergency_stop is called on the main thread
NextCancel ==
    \/ \E t \in Workers, axis \in CancelAxes, dir \in ConcJogDirections, s \in JogSpeeds :
          start_jog(t, axis, dir, s) /\ UNCHANGED chan
    \/ \E t \in Workers, axis \in CancelAxes : stop_jog(t, axis) /\ UNCHANGED chan
    \/ emergency_stop(Main)
    \/ \E t \in Callers : Connect(t)
    \/ \E t \in Callers : Dispatch(t)
    \/ \E t \in Callers : Complete(t)
    \/ \E t \in Callers : Return(t)

\* a thread that is inside a controller method goes on running: the method
\* takes no lock and waits for nothing before it calls the driver
FairCancel ==
    \A t \in Callers : WF_vars(Connect(t)) /\ WF_vars(Dispatch(t))

\* the controller built from a configuration with no entries
InitCancel == Init /\ config = <<>>

SpecCancel == InitCancel /\ [][NextCancel]_vars /\ FairCancel

\* the move requests of the web API, each on an executor thread of its own,
\* with the timeouts of their handlers
NextTimeout ==
    \/ \E t \in Workers, axis \in Axes, d \in ConcDistances, s \in ConcSpeedArgs :
          move_single_axis(t, axis, d, s)
    \/ \E t \in Workers, x \in ConcDistances, y \in ConcDistances, s \in ConcSpeedArgs :
          move_absolute(t, x, y, s)
    \/ \E t \in Workers : wait_for_timeout(t)
    \/ \E t \in Workers : Begin(t)
    \/ \E t \in Workers : Connect(t)
    \/ \E t \in Workers : Dispatch(t)
    \/ \E t \in Workers : Complete(t)
    \/ \E t \in Workers : Finally(t)
    \/ \E t \in Workers : Return(t)

SpecTimeout == InitConc /\ [][NextTimeout]_vars

\* requests to the web API, served one at a time
NextWeb ==
    \/ web_emergency_stop(Main)
    \/ web_clear_emergency_stop(Main)
    \/ web_home(Main)
    \/ web_get_status(Main)
    \/ Begin(Main)
    \/ Connect(Main)
    \/ Dispatch(Main)
    \/ Complete(Main)
    \/ Finally(Main)
    \/ web_reply(Main)

SpecWeb == Init /\ [][NextWeb]_vars

\* the commands of the command line, one at a time, on the objects of one
\* process
NextCli ==
    \/ \E axis \in Axes, d \in Distances, s \in SpeedArgs : cli_move(Main, axis, d, s)
    \/ cli_home_all(Main)
    \/ cli_emergency_stop(Main)
    \/ \E x \in Distances, y \in Distances : cli_move_absolute(Main, x, y)
    \/ \E axis \in AxisArgs : cli_home_axis(Main, axis)
    \/ cli_get_status(Main)
    \/ Begin(Main)
    \/ Connect(Main)
    \/ Dispatch(Main)
    \/ Complete(Main)
    \/ Finally(Main)
    \/ Return(Main)

SpecCli == Init /\ [][NextCli]_vars

\* POST /move requests, each with an executor thread of its own
NextMove ==
    \/ \E t \in Workers, axis \in Axes, d \in WebDistances, s \in WebSpeedArgs :
          web_move(t, axis, d, s)
    \/ \E t \in Workers : Begin(t)
    \/ \E t \in Workers : Connect(t)
    \/ \E t \in Workers : Dispatch(t)
    \/ \E t \in Workers : move_axis_done(t)
    \/ \E t \in Workers : Finally(t)
    \/ \E t \in Workers : web_reply(t)

SpecMove == InitConc /\ [][NextMove]_vars

\* POST /move requests served one at a time, under each configuration
NextLimits ==
    \/ \E axis \in Axes, d \in WebDistances, s \in WebSpeedArgs :
          web_move(Main, axis, d, s)
    \/ Begin(Main)
    \/ Connect(Main)
    \/ Dispatch(Main)
    \/ move_axis_done(Main)
    \/ Finally(Main)
    \/ web_reply(Main)

SpecLimits == Init /\ [][NextLimits]_vars

\* a client of the driver, one call at a time
NextDriver ==
    \/ driver_connect(Main)
    \/ driver_disconnect(Main)
    \/ \E c \in DriverCalls : driver_call(Main, c)
    \/ Return(Main)

SpecDriver == Init /\ [][NextDriver]_vars

(***************************************************************************)
(* Properties                                                              *)
(***************************************************************************)
\* caller t is inside controller method o
Running(t, o) == pc[t] # "idle" /\ op[t] = o

\* caller t has finished controller method o (it returned or raised)
Finished(t, o) == pc[t] = "done" /\ op[t] = o

\* the controller methods that check the emergency-stop flag on entry
GatedOps == {"move_single_axis", "move_coordinated", "move_absolute", "start_jog"}

\* driver methods that command motion
MotionCmds == {"move_axis", "move_absolute", "start_jog"}

\* the speed a call with speed None runs at
default_speed == substitute_speed(None)

\* C1: a call of move_single_axis, move_coordinated, move_absolute or
\* start_jog made while emergency_stop_active is true raises the
\* "Emergency stop is active" error and invokes no driver method, connect
\* included.
C1_SafetyGating ==
    \A t \in Callers :
        (pc[t] # "idle" /\ op[t] \in GatedOps /\ estop_at_entry[t]) =>
            /\ pc[t] = "done"
            /\ result[t] = "RuntimeError:estop"
            /\ log[t] = <<>>

C1_Witness ==
    \E t \in Callers :
        /\ Finished(t, "move_absolute")
        /\ estop_at_entry[t]
        /\ result[t] = "RuntimeError:estop"

\* C2: no motion command (move_axis, move_absolute, start_jog) is handed to
\* the driver in a step that starts with emergency_stop_active true.
C2_NoDispatchUnderEstop ==
    [][\A t \in Callers :
          (pc[t] = "dispatch" /\ pc'[t] = "incall" /\ NextCmd(t).m \in MotionCmds)
              => ~emergency_stop_active]_vars

\* C3: two move_single_axis calls on different axes are never both between
\* the start and the return of the driver's move_axis (the case the claim
\* names of "at most one controller method is inside a driver call").
C3_MutualExclusion ==
    \A t1 \in Callers, t2 \in Callers :
        ~(/\ t1 # t2
          /\ pc[t1] = "incall" /\ op[t1] = "move_single_axis"
          /\ pc[t2] = "incall" /\ op[t2] = "move_single_axis"
          /\ LastCmd(t1).axis # LastCmd(t2).axis)

\* C4: when the driver's emergency_stop returned False (not connected, or a
\* LinuxCNC call raised), emergency_stop_active is true once the controller's
\* emergency_stop has finished.
C4_EstopFailSafe ==
    \A t \in Callers :
        (/\ Finished(t, "emergency_stop")
         /\ LastCmd(t).m = "emergency_stop"
         /\ LastCmd(t).ret = "false") => emergency_stop_active

C4_Witness ==
    \E t \in Callers :
        /\ Finished(t, "emergency_stop")
        /\ LastCmd(t).m = "emergency_stop"
        /\ LastCmd(t).ret = "false"
        /\ ~connected
        /\ emergency_stop_active

\* C5: when clear_emergency_stop is called with the flag set and the driver's
\* clear returned False, emergency_stop_active is still true once the call
\* has finished.
C5_ClearRequiresBackendSuccess ==
    \A t \in Callers :
        (/\ Finished(t, "clear_emergency_stop")
         /\ estop_at_entry[t]
         /\ LastCmd(t).m = "clear_emergency_stop"
         /\ LastCmd(t).ret = "false") => emergency_stop_active

\* C6: emergency_stop_active goes from true to false only in a step of
\* clear_emergency_stop.
C6_OnlyClearLowersFlag ==
    [][(emergency_stop_active /\ ~emergency_stop_active') =>
          \E t \in Callers :
              /\ pc'[t] # pc[t]
              /\ "clear_emergency_stop" \in {op[t], op'[t]}]_vars

\* C7: when the driver's emergency_stop returned False, the controller's
\* emergency_stop does not return normally.
C7_EstopFailureSurfaced ==
    \A t \in Callers :
        (/\ Finished(t, "emergency_stop")
         /\ LastCmd(t).m = "emergency_stop"
         /\ LastCmd(t).ret = "false") => result[t] # "ok"

\* C8: home_axes called while emergency_stop_active is true does not invoke
\* the driver's home_all_axes, and fails.
C8_HomingGated ==
    \A t \in Callers :
        (Running(t, "home_axes") /\ estop_at_entry[t]) =>
            /\ Count(log[t], "home_all_axes") = 0
            /\ pc[t] = "done" => result[t] # "ok"

\* C9: move_single_axis called (emergency stop inactive) with a speed above
\* the axis's max_speed raises the ValueError of _validate_movement and
\* invokes no driver method, whatever the distance.
C9_SpeedCeiling ==
    \A t \in Callers :
        (/\ Running(t, "move_single_axis")
         /\ ~estop_at_entry[t]
         /\ args[t].speed # None
         /\ args[t].speed[1] > max_speed(args[t].axis)) =>
            /\ pc[t] = "done"
            /\ result[t] = "ValueError:speed"
            /\ log[t] = <<>>

C9_Witness ==
    \E t \in Callers :
        /\ Finished(t, "move_single_axis")
        /\ args[t].speed = Some(3)
        /\ max_speed(args[t].axis) = 2
        /\ args[t].a = -1
        /\ result[t] = "ValueError:speed"

\* C10: move_single_axis, move_coordinated or move_absolute called
\* (emergency stop inactive) without a speed, under a configuration whose
\* default speed exceeds the max_speed of an axis the call validates, raises
\* the ValueError and invokes no driver method.
C10_DefaultBeforeValidation ==
    \A t \in Callers :
        (/\ pc[t] # "idle"
         /\ ~estop_at_entry[t]
         /\ args[t].speed = None
         /\ \/ /\ op[t] = "move_single_axis"
               /\ default_speed > max_speed(args[t].axis)
            \/ /\ op[t] \in {"move_coordinated", "move_absolute"}
               /\ \E axis \in {"x", "y"} : default_speed > max_speed(axis)) =>
            /\ pc[t] = "done"
            /\ result[t] = "ValueError:speed"
            /\ log[t] = <<>>

C10_Witness ==
    \E t \in Callers :
        /\ Finished(t, "move_coordinated")
        /\ args[t].speed = None
        /\ default_speed > max_speed("x")
        /\ ~(default_speed > max_speed("y"))
        /\ result[t] = "ValueError:speed"

\* the three move methods that take a speed
SpeedOps == {"move_single_axis", "move_coordinated", "move_absolute"}

\* C11: move_single_axis, move_coordinated or move_absolute called
\* (emergency stop inactive) with a speed of zero or less invokes no driver
\* method and ends with the ValueError of _validate_movement.
C11_NonPositiveSpeedRejected ==
    \A t \in Callers :
        (/\ pc[t] # "idle"
         /\ op[t] \in SpeedOps
         /\ ~estop_at_entry[t]
         /\ args[t].speed # None
         /\ args[t].speed[1] <= 0) =>
            /\ log[t] = <<>>
            /\ pc[t] = "done" => result[t] = "ValueError:speed"

\* C12: move_absolute called (emergency stop inactive) with x or y outside
\* [min_position, max_position] of its axis does not invoke the driver's
\* move_absolute, and ends with a validation error.
C12_AbsoluteTargetInLimits ==
    \A t \in Callers :
        (/\ Running(t, "move_absolute")
         /\ ~estop_at_entry[t]
         /\ ~(within_limits("x", args[t].a) /\ within_limits("y", args[t].b))) =>
            /\ Count(log[t], "move_absolute") = 0
            /\ pc[t] = "done" => result[t] = "ValueError:speed"

\* the controller methods that command motion, and the driver methods they
\* invoke for it
MotionOps == {"move_single_axis", "move_coordinated", "move_absolute",
              "home_axes", "start_jog", "stop_jog"}

BackendMotionCmds == {"move_axis", "move_absolute", "home_all_axes",
                      "start_jog", "stop_jog"}

\* C13: a motion method whose driver method returned False (the driver
\* returns False for every failure, a raised exception included) does not
\* return normally.
C13_BackendFailurePropagated ==
    \A t \in Callers :
        (/\ pc[t] = "done"
         /\ op[t] \in MotionOps
         /\ log[t] # <<>>
         /\ LastCmd(t).m \in BackendMotionCmds
         /\ LastCmd(t).ret = "false") => result[t] # "ok"

\* the invocations of driver method m in a log, in order
Invocations(l, m) == SelectSeq(l, LAMBDA c : c.m = m)

\* C14: move_coordinated invokes move_axis for x first and for y second; y is
\* invoked only after x returned True; no driver method other than connect
\* and these is invoked, whatever they return; and the call raises the
\* RuntimeError when x, or x then y, returned False.
C14_CoordinatedOrder ==
    \A t \in Callers :
        Running(t, "move_coordinated") =>
            LET moves == Invocations(log[t], "move_axis")
            IN  /\ Len(moves) <= 2
                /\ Len(moves) >= 1 => moves[1].axis = "x"
                /\ Len(moves) = 2 =>
                       moves[2].axis = "y" /\ moves[1].ret = "true"
                /\ \A i \in 1..Len(log[t]) : log[t][i].m \in {"connect", "move_axis"}
                /\ (pc[t] = "done" /\ moves # <<>> /\ moves[Len(moves)].ret = "false")
                       => result[t] = "RuntimeError:backend"
                /\ (pc[t] = "done" /\ result[t] \notin {"RuntimeError:estop", "ValueError:speed"})
                       => \/ Len(moves) = 2
                          \/ Len(moves) = 1 /\ moves[1].ret = "false"

C14_Witness ==
    \E t \in Callers :
        /\ Finished(t, "move_coordinated")
        /\ Len(Invocations(log[t], "move_axis")) = 2
        /\ Invocations(log[t], "move_axis")[1].ret = "true"
        /\ Invocations(log[t], "move_axis")[2].ret = "false"
        /\ result[t] = "RuntimeError:backend"

\* arguments of a move_absolute call that pass _validate_movement
ValidAbsolute(a) ==
    /\ validate_movement("x", a.a, substitute_speed(a.speed))
    /\ validate_movement("y", a.b, substitute_speed(a.speed))

\* C15: a move_absolute with valid arguments called right after the sequence
\* emergency_stop, move_absolute blocked, clear_emergency_stop whose driver
\* call returned True, is not blocked: it invokes the driver's move_absolute
\* once and, that one returning True, returns normally.
C15_MoveAfterClear ==
    \A t \in Callers :
        (/\ Running(t, "move_absolute")
         /\ scenario = "cleared"
         /\ ValidAbsolute(args[t])) =>
            /\ result[t] \notin {"RuntimeError:estop", "ValueError:speed"}
            /\ pc[t] \in {"finally", "done"} =>
                  /\ Count(log[t], "move_absolute") = 1
                  /\ LastCmd(t).ret = "true" => result[t] = "ok"

C15_Witness ==
    \E t \in Callers :
        /\ Finished(t, "move_absolute")
        /\ scenario = "cleared"
        /\ Count(log[t], "move_absolute") = 1
        /\ LastCmd(t).ret = "true"
        /\ result[t] = "ok"

\* the axes for which the running disconnect handler has invoked the driver's
\* stop_jog
StoppedOnClose(t) ==
    {Invocations(log[t], "stop_jog")[i].axis :
        i \in 1..Len(Invocations(log[t], "stop_jog"))}

\* C16: the disconnect handler of a jog channel invokes the driver's stop_jog
\* only for axes the channel started and did not stop, and by its end has
\* invoked it once for each of them, whatever the stop_jog calls returned.
C16_DisconnectStopsJogs ==
    (chan # None /\ ~ws_open[chan[1]]) =>
        /\ StoppedOnClose(Main) \subseteq jog_started[chan[1]]
        /\ pc[Main] = "ws_done" =>
              /\ StoppedOnClose(Main) = jog_started[chan[1]]
              /\ Len(Invocations(log[Main], "stop_jog")) =
                     Cardinality(jog_started[chan[1]])

C16_Witness ==
    /\ pc[Main] = "ws_done"
    /\ jog_started[chan[1]] = {"x", "y"}
    /\ Len(Invocations(log[Main], "stop_jog")) = 2
    /\ Invocations(log[Main], "stop_jog")[1].ret = "false"

\* C17: once a stop_jog on an axis has returned normally to a jog channel's
\* handler and been recorded, no jog channel records an active jog for that
\* axis.
C17_StopLeavesNoSession ==
    (/\ pc[Main] = "ws_reply"
     /\ op[Main] = "stop_jog"
     /\ result[Main] = "ok") =>
        \A c \in Channels : ~jog_active[c][args[Main].axis]

\* C18: stop_jog on an axis for which no jog is recorded returns normally and
\* leaves the controller's flags as they were.
C18_StopWithoutSession ==
    \A t \in Callers :
        (/\ Finished(t, "stop_jog")
         /\ \A c \in Channels : ~jog_active[c][args[t].axis]) =>
            /\ result[t] = "ok"
            /\ emergency_stop_active = estop_at_entry[t]
            /\ ~movement_in_progress

\* C19: once emergency_stop has finished, no jog channel records an active
\* jog for any axis.
C19_EstopEndsJogSessions ==
    \A t \in Callers :
        Finished(t, "emergency_stop") =>
            \A c \in Channels : \A axis \in {"x", "y"} : ~jog_active[c][axis]

\* C20: at most one jog channel records an active jog for an axis.
C20_OneSessionPerAxis ==
    \A axis \in {"x", "y"} :
        Cardinality({c \in Channels : jog_active[c][axis]}) <= 1

C22_StatusNeverRaises ==
    \A t \in Callers :
        /\ Finished(t, "get_status") =>
              /\ result[t] = "ok"
              /\ (log[t] = <<>> \/ LastCmd(t).ret = "false")
                     => snapshot[1].error_state
        /\ Finished(t, "web_get_status") =>
              /\ result[t] = "ok"
              /\ (snapshot[1].mesa_status = None \/ LastCmd(t).ret = "false")
                     => snapshot[1].status = "error"

\* the controller methods that command the backend
CommandOps == MotionOps \cup {"emergency_stop", "clear_emergency_stop", "set_io"}

\* C23: a controller method that finds the driver not connected calls connect
\* once, and when that connect failed the method does not return normally.
C23_ReconnectOnceOrFail ==
    \A t \in Callers :
        (/\ pc[t] = "done"
         /\ op[t] \in CommandOps
         /\ Count(log[t], "connect") > 0) =>
            /\ Count(log[t], "connect") = 1
            /\ Invocations(log[t], "connect")[1].ret = "false" => result[t] # "ok"

Rejections == {"RuntimeError:estop", "ValueError:speed", "ValueError:io"}

\* C24: a call is rejected (emergency-stop check, validation) only in the
\* step that enters it, and that step invokes no driver method and leaves
\* emergency_stop_active, movement_in_progress and the driver's connection
\* state as they were.
C24_RejectionNoSideEffects ==
    [][\A t \in Callers :
          (result'[t] \in Rejections /\ result[t] \notin Rejections) =>
              /\ pc[t] = "idle" /\ pc'[t] = "done"
              /\ log'[t] = <<>>
              /\ UNCHANGED <<emergency_stop_active, movement_in_progress,
                             connected>>]_vars

C24_Witness ==
    \E t \in Callers :
        /\ Finished(t, "move_single_axis")
        /\ result[t] = "ValueError:speed"
        /\ log[t] = <<>>
        /\ ~connected
        /\ ~movement_in_progress

\* C25: move_single_axis or start_jog called (emergency stop inactive) with
\* an axis other than 'x' and 'y' invokes no driver method, connect
\* included, and ends with a validation error.
C25_AxisNameValidated ==
    \A t \in Callers :
        (/\ pc[t] # "idle"
         /\ op[t] \in {"move_single_axis", "start_jog"}
         /\ args[t].axis \notin {"x", "y"}
         /\ ~estop_at_entry[t]) =>
            /\ log[t] = <<>>
            /\ pc[t] = "done" => result[t] = "ValueError:speed"

\* C26: start_jog called (emergency stop inactive) on axis x or y with a
\* direction other than +1 and -1, a speed of zero or less, or a speed above
\* the axis's max_speed, starts no jog in the driver and does not return
\* normally.
C26_StartJogValidated ==
    \A t \in Callers :
        (/\ Running(t, "start_jog")
         /\ ~estop_at_entry[t]
         /\ args[t].axis \in {"x", "y"}
         /\ \/ args[t].a \notin {1, -1}
            \/ args[t].speed[1] <= 0
            \/ args[t].speed[1] > max_speed(args[t].axis)) =>
            /\ \A i \in 1..Len(log[t]) :
                  ~(log[t][i].m = "start_jog" /\ log[t][i].ret = "true")
            /\ pc[t] = "done" => result[t] # "ok"

\* C28: while a move or homing call is between the dispatch and the return
\* of its driver method, movement_in_progress is true.
C28_InProgressWhileExecuting ==
    (\E t \in Callers : pc[t] = "incall" /\ op[t] \in MoveOps)
        => movement_in_progress

\* every driver method the call of caller t invoked returned True
BackendSucceeded(t) == \A i \in 1..Len(log[t]) : log[t][i].ret = "true"

\* C29: with one caller, once move_single_axis, move_coordinated,
\* move_absolute or home_axes has returned or raised, movement_in_progress is
\* false; and a move_single_axis called with the emergency stop inactive, an
\* axis x or y, a speed in (0, max_speed] and a driver that succeeds has
\* invoked move_axis once, with its axis, distance and speed, and returns
\* normally.
C29_SingleCallerMove ==
    /\ (pc[Main] = "done" /\ op[Main] \in MoveOps) => ~movement_in_progress
    /\ (/\ Finished(Main, "move_single_axis")
        /\ ~estop_at_entry[Main]
        /\ args[Main].axis \in {"x", "y"}
        /\ args[Main].speed # None
        /\ args[Main].speed[1] > 0
        /\ args[Main].speed[1] <= max_speed(args[Main].axis)
        /\ BackendSucceeded(Main)) =>
           /\ Count(log[Main], "move_axis") = 1
           /\ LastCmd(Main).m = "move_axis"
           /\ LastCmd(Main).axis = args[Main].axis
           /\ LastCmd(Main).p = args[Main].a
           /\ LastCmd(Main).q = args[Main].speed[1]
           /\ result[Main] = "ok"

C29_Witness ==
    /\ Finished(Main, "move_single_axis")
    /\ args[Main].axis = "y"
    /\ args[Main].a = -1
    /\ args[Main].speed = Some(3)
    /\ Count(log[Main], "connect") = 1
    /\ LastCmd(Main).m = "move_axis" /\ LastCmd(Main).ret = "true"
    /\ result[Main] = "ok"
    /\ ~movement_in_progress

\* the driver methods that command the machine
CommandMethods == BackendMotionCmds \cup
                  {"emergency_stop", "clear_emergency_stop", "set_io"}

\* C30: a call of a controller method invokes each driver command method at
\* most once, move_coordinated invokes move_axis at most once per axis, and no
\* command method is invoked after one that returned False.
C30_NoRetry ==
    \A t \in Callers :
        /\ \A m \in CommandMethods :
              Count(log[t], m) <=
                  IF op[t] = "move_coordinated" /\ m = "move_axis" THEN 2 ELSE 1
        /\ \A i, j \in 1..Len(log[t]) :
              (i < j /\ log[t][i].m = "move_axis" /\ log[t][j].m = "move_axis")
                  => log[t][i].axis # log[t][j].axis
        /\ \A i, j \in 1..Len(log[t]) :
              (i < j /\ log[t][i].m \in CommandMethods /\ log[t][j].m \in CommandMethods)
                  => log[t][i].ret = "true"

C30_Witness ==
    /\ Finished(Main, "move_coordinated")
    /\ Count(log[Main], "move_axis") = 1
    /\ LastCmd(Main).axis = "x"
    /\ LastCmd(Main).ret = "false"
    /\ result[Main] = "RuntimeError:backend"

\* C31: once the handler of a network move has reported the timeout of a
\* call whose driver method had not returned, that call invokes no further
\* driver command and, no other call being inside a controller method,
\* movement_in_progress is false.
C31_TimeoutReleases ==
    \A t \in Workers :
        (timeout_at[t] # None /\ timeout_at[t][1].in_call) =>
            /\ Dispatched(log[t]) = timeout_at[t][1].n
            /\ (\A u \in Callers \ {t} : pc[u] \notin InMethod)
                  => ~movement_in_progress

\* C32: when read_status reported not connected (the driver is not connected,
\* or the read failed or raised inside it), get_emergency_stop_status returns
\* normally and emergency_stop_active, the value it returns, is what it was
\* when the method was called.
C32_StatusReadDegrades ==
    (/\ Finished(Main, "get_emergency_stop_status")
     /\ LastCmd(Main).m = "read_status"
     /\ LastCmd(Main).ret = "false") =>
        /\ result[Main] = "ok"
        /\ emergency_stop_active = estop_at_entry[Main]

C32_Witness ==
    /\ Finished(Main, "get_emergency_stop_status")
    /\ LastCmd(Main).m = "read_status"
    /\ LastCmd(Main).ret = "false"
    /\ estop_at_entry[Main]
    /\ emergency_stop_active
    /\ result[Main] = "ok"

\* C33: when the web API has answered a POST /emergency_stop, whatever its
\* is_connected flag was and whether or not the emergency stop was active
\* already, emergency_stop_active is true.
C33_NetworkEstopSetsFlag ==
    (/\ pc[Main] = "idle"
     /\ reply # None
     /\ reply[1].endpoint = "emergency_stop") => emergency_stop_active

\* C34: the reply to POST /api/home has status ok only when home_axes
\* returned normally, that is when the driver's home_all_axes returned True.
C34_HomeFailureReported ==
    (/\ reply # None
     /\ reply[1].endpoint = "home_axes"
     /\ reply[1].status = "ok") => reply[1].outcome = "ok"

C36_SnapshotEstopIsFlag ==
    (/\ pc[Main] = "done"
     /\ op[Main] \in {"web_get_status", "cli_get_status"}) =>
        snapshot[1].emergency_stop = emergency_stop_active

\* C37: whenever move_single_axis called for a POST /move hands a relative
\* move to the driver, the position of the axis at that moment plus the
\* distance lies within [min_position, max_position] of the axis.
C37_DispatchWithinLimits ==
    [][\A t \in Workers :
          (pc[t] = "dispatch" /\ pc'[t] = "incall" /\ op[t] = "move_single_axis")
              => within_limits(args[t].axis,
                               hw_position[args[t].axis] + args[t].a)]_vars

\* C38: move_single_axis (emergency stop inactive, axis x or y) is rejected
\* for its speed exactly when the speed is above the max_speed that
\* get_axis_limits reports for the axis, the value of
\* table.<axis>_axis.max_speed.
C38_CeilingIsTableMaxSpeed ==
    (/\ Finished(Main, "move_single_axis")
     /\ ~estop_at_entry[Main]
     /\ args[Main].axis \in Axes) =>
        (result[Main] = "ValueError:speed" <=>
            substitute_speed(args[Main].speed) >
                get_axis_limits(args[Main].axis).max_speed)

\* C39: validate_position(axis, p) is true exactly when p lies between the
\* min and the max that get_axis_limits reports for the axis.
C39_ValidatePositionIsLimits ==
    \A axis \in Axes, p \in PositionArgs :
        validate_position(axis, p) <=> within_limits(axis, p)

\* C40: a command method of the driver (move_axis, move_absolute, home_axis,
\* home_all_axes, start_jog, stop_jog, set_io, emergency_stop,
\* clear_emergency_stop) called while _connected is false returns False,
\* does not get as far as a LinuxCNC command, and leaves the state of the
\* driver and of the machine as it was.
C40_NoCommandWhenDisconnected ==
    [][(pc[Main] = "idle" /\ op'[Main] = "driver_call" /\ ~connected) =>
          /\ log'[Main][1].ret = "false"
          /\ ~log'[Main][1].sent
          /\ UNCHANGED <<drvVars, hw_position>>]_vars

C40_Witness ==
    /\ pc[Main] = "done"
    /\ op[Main] = "driver_call"
    /\ ~connected
    /\ LastCmd(Main).m = "emergency_stop"
    /\ LastCmd(Main).ret = "false"
    /\ ~LastCmd(Main).sent
    /\ ~hw_estop
    /\ ~driver_emergency_stop
====
